---- MODULE Spec2Model ----
(***************************************************************************)
(* unfurlist: the per-URL unfurl pipeline (processURL), its in-flight      *)
(* registry, the cache read/write path and the batch collector of          *)
(* ServeHTTP, modelled from unfurlist.go and html_meta_parser.go.          *)
(*                                                                         *)
(* Strings that the code only compares or copies are TLA+ strings; a       *)
(* title is a sequence of one-character strings because normalize and      *)
(* blacklisted look inside it; a URL is a record [scheme, host, path],     *)
(* the empty string being EmptyURL.                                        *)
(***************************************************************************)
EXTENDS Integers, Sequences, FiniteSets, TLC

\* ------------------------------------------------------------------ bounds

\* most URLs of one batch
MaxUrls == 2
\* most per-URL goroutines over all batches
MaxProcs == 2

\* most goroutines for one link, where all ask for the same link
MaxSame == 3
\* most tags of a generated document head
MaxTags == 4

Batches == {1, 2}

\* ------------------------------------------------------------- plain data

EmptyURL == [scheme |-> "", host |-> "", path |-> ""]

MkURL(s, h, p) == [scheme |-> s, host |-> h, path |-> p]

\* type unfurlResult: the zero value
unfurlResult ==
    [URL |-> EmptyURL, Title |-> <<>>, Type |-> "", Description |-> "",
     SiteName |-> "", Image |-> EmptyURL, ImageWidth |-> 0, ImageHeight |-> 0,
     IconUrl |-> EmptyURL, IconType |-> "", idx |-> 0]

\* processURL: result := &unfurlResult{idx: i, URL: link}
NewResult(i, link) == [unfurlResult EXCEPT !.idx = i, !.URL = link]

\* func (u *unfurlResult) Empty() bool
Empty(u) ==
    /\ u.URL = EmptyURL
    /\ u.Title = <<>>
    /\ u.Type = ""
    /\ u.Description = ""
    /\ u.Image = EmptyURL

IsSpace(c) == c \in {" ", "\t", "\n"}

\* bytes.Fields: the maximal runs of non-space characters, in order
RECURSIVE Fields(_)
Fields(s) ==
    IF s = <<>> THEN <<>>
    ELSE IF IsSpace(Head(s)) THEN Fields(Tail(s))
    ELSE LET rest == Fields(Tail(s))
         IN  IF Len(s) > 1 /\ ~IsSpace(s[2])
             THEN <<(<<Head(s)>> \o Head(rest))>> \o Tail(rest)
             ELSE <<(<<Head(s)>>)>> \o rest

\* bytes.Join(fields, " ")
RECURSIVE Join(_)
Join(fs) ==
    IF fs = <<>> THEN <<>>
    ELSE IF Len(fs) = 1 THEN Head(fs)
    ELSE Head(fs) \o <<" ">> \o Join(Tail(fs))

\* func (u *unfurlResult) normalize()
normalize(u) == [u EXCEPT !.Title = Join(Fields(u.Title))]

\* Merge in which the title of u2, when it has one, replaces the title of u
MergeLastTitle(u, u2) ==
    [u EXCEPT
       !.URL = IF u.URL = EmptyURL THEN u2.URL ELSE u.URL,
       !.Title = IF u2.Title # <<>> THEN u2.Title ELSE u.Title,
       !.Type = IF u.Type = "" THEN u2.Type ELSE u.Type,
       !.Description = IF u.Description = "" THEN u2.Description ELSE u.Description,
       !.SiteName = IF u.SiteName = "" THEN u2.SiteName ELSE u.SiteName,
       !.Image = IF u.Image = EmptyURL THEN u2.Image ELSE u.Image,
       !.ImageWidth = IF u.ImageWidth = 0 THEN u2.ImageWidth ELSE u.ImageWidth,
       !.ImageHeight = IF u.ImageHeight = 0 THEN u2.ImageHeight ELSE u.ImageHeight,
       !.IconType = IF u.IconUrl = EmptyURL /\ u2.IconUrl # EmptyURL
                    THEN u2.IconType ELSE u.IconType,
       !.IconUrl = IF u.IconUrl = EmptyURL /\ u2.IconUrl # EmptyURL
                   THEN u2.IconUrl ELSE u.IconUrl]

\* func (u *unfurlResult) Merge(u2 *unfurlResult), u2 not nil
Merge(u, u2) ==
    [u EXCEPT
       !.URL = IF u.URL = EmptyURL THEN u2.URL ELSE u.URL,
       !.Title = IF u.Title = <<>> THEN u2.Title ELSE u.Title,
       !.Type = IF u.Type = "" THEN u2.Type ELSE u.Type,
       !.Description = IF u.Description = "" THEN u2.Description ELSE u.Description,
       !.SiteName = IF u.SiteName = "" THEN u2.SiteName ELSE u.SiteName,
       !.Image = IF u.Image = EmptyURL THEN u2.Image ELSE u.Image,
       !.ImageWidth = IF u.ImageWidth = 0 THEN u2.ImageWidth ELSE u.ImageWidth,
       !.ImageHeight = IF u.ImageHeight = 0 THEN u2.ImageHeight ELSE u.ImageHeight,
       !.IconType = IF u.IconUrl = EmptyURL /\ u2.IconUrl # EmptyURL
                    THEN u2.IconType ELSE u.IconType,
       !.IconUrl = IF u.IconUrl = EmptyURL /\ u2.IconUrl # EmptyURL
                   THEN u2.IconUrl ELSE u.IconUrl]

\* Less with the comparison turned round
LessDescending(a, b) == a.idx > b.idx

\* unfurlResults.Less
Less(a, b) == a.idx < b.idx

\* sort.Sort(results): insertion of each element into the sorted rest
RECURSIVE InsertSorted(_, _)
InsertSorted(r, s) ==
    IF s = <<>> THEN <<r>>
    ELSE IF Less(r, Head(s)) THEN <<r>> \o s
    ELSE <<Head(s)>> \o InsertSorted(r, Tail(s))

RECURSIVE Sort(_)
Sort(s) == IF s = <<>> THEN <<>> ELSE InsertSorted(Head(s), Sort(Tail(s)))

ToLowerChar(c) ==
    CASE c = "S" -> "s" [] c = "P" -> "p" [] c = "A" -> "a" [] c = "M" -> "m"
      [] c = "H" -> "h" [] c = "I" -> "i" [] c = "O" -> "o" [] c = "G" -> "g"
      [] OTHER -> c

\* strings.ToLower
ToLower(s) == [k \in 1..Len(s) |-> ToLowerChar(s[k])]

\* strings.Contains
Contains(s, sub) ==
    \E k \in 0..(Len(s) - Len(sub)) : SubSeq(s, k + 1, k + Len(sub)) = sub

\* func blacklisted(blacklist []string, title string) bool
blacklisted(blacklist, title) ==
    IF title = <<>> \/ Len(blacklist) = 0 THEN FALSE
    ELSE \E k \in 1..Len(blacklist) : Contains(ToLower(title), blacklist[k])

\* ------------------------------------------------ html_meta_parser.go

\* linkRel == "icon" || HasPrefix(linkRel, "icon ") || Contains(linkRel, " icon ")
\* || HasSuffix(linkRel, " icon"); rel is the sequence of words that single
\* spaces separate
IsRelIcon(rel) ==
    \/ rel = <<"icon">>
    \/ Len(rel) > 1 /\ rel[1] = "icon"
    \/ \E k \in 2..(Len(rel) - 1) : rel[k] = "icon"
    \/ Len(rel) > 1 /\ rel[Len(rel)] = "icon"

\* the last value of attribute k among attrs (a sequence of <<key, value>>),
\* or none when the tag has no such attribute
RECURSIVE LastAttr(_, _, _)
LastAttr(attrs, k, none) ==
    IF attrs = <<>> THEN none
    ELSE IF attrs[Len(attrs)][1] = k THEN attrs[Len(attrs)][2]
    ELSE LastAttr(SubSeq(attrs, 1, Len(attrs) - 1), k, none)

ScanState == [title |-> <<>>, description |-> "", iconType |-> "", iconUrl |-> EmptyURL]

\* extractData, the finish label
Finish(st) ==
    IF st.title # <<>> \/ st.description # ""
    THEN [err |-> FALSE, st |-> st]
    ELSE [err |-> TRUE, st |-> ScanState]

\* case atom.Meta, once description is still empty
MetaTag(st, attrs) ==
    LET badName == \E k \in 1..Len(attrs) :
                       attrs[k][1] = "name" /\ attrs[k][2] # "description"
        isDescription == \E k \in 1..Len(attrs) : attrs[k][1] = "name"
        content == LastAttr(attrs, "content", "")
    IN  IF ~badName /\ isDescription /\ content # ""
        THEN [st EXCEPT !.description = content]
        ELSE st

\* case atom.Link
LinkTag(st, attrs) ==
    LET linkRel == LastAttr(attrs, "rel", <<>>)
        linkType == LastAttr(attrs, "type", "")
        linkHref == LastAttr(attrs, "href", EmptyURL)
    IN  IF IsRelIcon(linkRel) /\ linkHref # EmptyURL
        THEN [st EXCEPT !.iconUrl = linkHref, !.iconType = linkType]
        ELSE st

\* extractData, the tokenize loop from token k on
RECURSIVE Tokenize(_, _, _)
Tokenize(toks, k, st) ==
    IF k > Len(toks) THEN Finish(st)
    ELSE LET t == toks[k] IN
      CASE t.tt = "error" -> [err |-> TRUE, st |-> ScanState]
        [] t.tt = "start" /\ t.name = "body" -> Finish(st)
        [] t.tt = "start" /\ t.name = "title" ->
             IF st.title # <<>> THEN Tokenize(toks, k + 1, st)
             ELSE IF k + 1 <= Len(toks) /\ toks[k + 1].tt = "text"
             THEN LET st2 == [st EXCEPT !.title = toks[k + 1].text]
                  IN  IF st2.description # "" /\ st2.iconUrl # EmptyURL
                      THEN Finish(st2)
                      ELSE Tokenize(toks, k + 2, st2)
             ELSE IF k + 1 <= Len(toks) /\ toks[k + 1].tt = "error"
             THEN Tokenize(toks, k + 1, st)
             ELSE Tokenize(toks, k + 2, st)
        [] t.tt = "start" /\ t.name = "meta" ->
             IF st.description # "" THEN Tokenize(toks, k + 1, st)
             ELSE LET st2 == MetaTag(st, t.attrs)
                  IN  IF st2.description # "" /\ st2.title # <<>>
                         /\ st2.iconUrl # EmptyURL
                      THEN Finish(st2)
                      ELSE Tokenize(toks, k + 1, st2)
        [] t.tt = "start" /\ t.name = "link" ->
             Tokenize(toks, k + 1, LinkTag(st, t.attrs))
        [] OTHER -> Tokenize(toks, k + 1, st)

\* func extractData(htmlBody []byte, ct string): charset.NewReader fails on a
\* body it cannot read
extractData(data) ==
    IF ~data.readable THEN [err |-> TRUE, st |-> ScanState]
    ELSE Tokenize(data.toks, 1, ScanState)

\* basicParseHTML that scans the body for tags whatever its type
basicParseHTMLAnyType(chunk) ==
    LET mime == chunk.data.mime
        x == extractData(chunk.data)
        r == IF x.err THEN unfurlResult
             ELSE [unfurlResult EXCEPT
                     !.Title = x.st.title, !.Description = x.st.description,
                     !.IconType = x.st.iconType, !.IconUrl = x.st.iconUrl]
    IN  CASE mime.major = "image" -> [r EXCEPT !.Type = "image", !.Image = chunk.url]
          [] mime.major = "text" -> [r EXCEPT !.Type = "website"]
          [] mime.major = "video" -> [r EXCEPT !.Type = "video"]
          [] OTHER -> [r EXCEPT !.Type = mime.full]

\* func basicParseHTML(chunk *pageChunk) *unfurlResult
basicParseHTML(chunk) ==
    LET mime == chunk.data.mime
        x == extractData(chunk.data)
    IN  CASE mime.major = "image" ->
               [unfurlResult EXCEPT !.Type = "image", !.Image = chunk.url]
          [] mime.major = "text" ->
               IF x.err THEN [unfurlResult EXCEPT !.Type = "website"]
               ELSE [unfurlResult EXCEPT !.Type = "website",
                       !.Title = x.st.title, !.Description = x.st.description,
                       !.IconType = x.st.iconType, !.IconUrl = x.st.iconUrl]
          [] mime.major = "video" -> [unfurlResult EXCEPT !.Type = "video"]
          [] OTHER -> [unfurlResult EXCEPT !.Type = mime.full]

\* ------------------------------------------------------------ the world

\* requested links
uRich == MkURL("http", "a.example", "/page")
uGone == MkURL("http", "b.example", "/gone")
uBad == MkURL("http", "bad.example", "/x")

\* links that custom fetchers know (hosts c, d and e), and one nobody knows
uCustom == MkURL("http", "c.example", "/c")
uSpamC == MkURL("http", "d.example", "/d")
uIconC == MkURL("http", "e.example", "/e")
uPlain == MkURL("http", "p.example", "/p")
\* where a redirected request ends
uFinal == MkURL("http", "z.example", "/new")

ChainLinks == {uRich, uCustom, uSpamC, uIconC, uPlain}

AllLinks == {uRich, uGone, uBad} \cup ChainLinks

Start(n, a) == [tt |-> "start", name |-> n, attrs |-> a, text |-> <<>>]
Text(t) == [tt |-> "text", name |-> "", attrs |-> <<>>, text |-> t]

\* <head><title>Hello  World</title><meta name=description content="A page">
\* <link rel="shortcut icon" type="image/x-icon" href="/favicon.ico"></head><body>
RichToks ==
    << Start("head", <<>>),
       Start("title", <<>>), Text(<<"H", "i", " ", " ", "y", "o", "u">>),
       Start("meta", << <<"name", "description">>, <<"content", "A page">> >>),
       Start("link", << <<"rel", <<"shortcut", "icon">> >>,
                        <<"type", "image/x-icon">>,
                        <<"href", MkURL("", "", "/favicon.ico")>> >>),
       Start("body", <<>>) >>

TextHTML == [major |-> "text", full |-> "text/html; charset=utf-8"]

\* what openGraphParseHTML finds in the page of uRich
RichOG ==
    [unfurlResult EXCEPT !.Title = <<"O", "G">>, !.Type = "article",
       !.SiteName = "og-site", !.Image = MkURL("", "", "/og.png")]

\* the oEmbed document of the page of uRich
RichOembed ==
    [unfurlResult EXCEPT !.Title = <<"O", "E">>, !.Type = "video",
       !.SiteName = "oe-site",
       !.Image = MkURL("http", "cdn.example", "/thumb.png"),
       !.ImageWidth = 4, !.ImageHeight = 3]

\* What the server of link u answers: the status and, for a page, the
\* pageChunk: data (the sniffed type, the head's tokens, whether the charset
\* reader can read it, what the Open Graph parser finds in it, og, empty for
\* nil, and its oEmbed discovery link), the final url and the Content-Type.
Web(u) ==
    CASE u = uRich ->
           [status |-> 200,
            chunk |-> [data |-> [mime |-> TextHTML, toks |-> RichToks,
                                 readable |-> TRUE, og |-> <<RichOG>>,
                                 discover |-> <<>>],
                       url |-> uRich, ct |-> "text/html"]]
      [] OTHER ->
           [status |-> 404,
            chunk |-> [data |-> [mime |-> TextHTML, toks |-> <<>>,
                                 readable |-> FALSE, og |-> <<>>,
                                 discover |-> <<>>],
                       url |-> u, ct |-> ""]]

\* h.oembedLookupFunc, the provider registry: the endpoint for a page url
oembedLookupFunc(url) ==
    IF url = uRich THEN <<MkURL("http", "a.example", "/oembed")>> ELSE <<>>

\* oEmbed endpoints a page may name in its head (oembed.Discover)
epSpam == MkURL("http", "o.example", "/spam")
epFtp == MkURL("http", "o.example", "/ftp")

\* an oEmbed document whose title holds a forbidden fragment
SpamOembed ==
    [unfurlResult EXCEPT !.Title = <<"S", "p", "a", "m">>, !.Type = "rich"]

\* an oEmbed document whose thumbnail is not served over http
FtpOembed ==
    [unfurlResult EXCEPT !.Title = <<"F">>, !.Type = "photo",
       !.Image = MkURL("ftp", "o.example", "/t.png"),
       !.ImageWidth = 4, !.ImageHeight = 3]

\* the document an oEmbed endpoint serves, as fetchOembed parses it
OembedDoc(endpoint) ==
    IF endpoint = MkURL("http", "a.example", "/oembed") THEN RichOembed
    ELSE IF endpoint = epSpam THEN SpamOembed
    ELSE IF endpoint = epFtp THEN FtpOembed
    ELSE unfurlResult

\* Open Graph tags whose og:title holds a forbidden fragment
SpamOG ==
    [unfurlResult EXCEPT !.Title = <<"s", "p", "a", "m", "!">>, !.Type = "article",
       !.Description = "og-desc"]

\* <title>..</title>, <meta name=description content=..>, <link rel=icon ..>, <body>
TitleTag(t) == <<Start("title", <<>>), Text(t)>>
DescTag(d) == <<Start("meta", << <<"name", "description">>, <<"content", d>> >>)>>
IconTag(type, href) ==
    <<Start("link", << <<"rel", <<"icon">> >>, <<"type", type>>,
                       <<"href", MkURL("", "", href)>> >>)>>
BodyTag == <<Start("body", <<>>)>>

\* the tags generated document heads are made of
Tags ==
    {TitleTag(<<"T">>), TitleTag(<<"S", "P", "A", "M">>), DescTag("D"),
     IconTag("image/png", "/a.ico"), IconTag("image/gif", "/b.ico"), BodyTag}

RECURSIVE Flatten(_)
Flatten(l) == IF l = <<>> THEN <<>> ELSE Head(l) \o Flatten(Tail(l))

\* a page whose title holds a forbidden fragment, and nothing else
SpamToks == Flatten(<<TitleTag(<<"S", "P", "A", "M">>), BodyTag>>)

VideoMP4 == [major |-> "video", full |-> "video/mp4"]
ImagePNG == [major |-> "image", full |-> "image/png"]
OtherPDF == [major |-> "application", full |-> "application/pdf"]

\* a pageChunk as fetchData builds it
Page(mime, toks, og, discover, final) ==
    [data |-> [mime |-> mime, toks |-> toks, readable |-> TRUE, og |-> og,
               discover |-> discover],
     url |-> final, ct |-> mime.full]

\* the text pages whose head is any sequence of at most n of Tags
ScanChunks(u, n) ==
    {Page(TextHTML, Flatten(l), <<>>, <<>>, u) :
        l \in UNION {[1..k -> Tags] : k \in 0..n}}

\* What the server of u may answer with a status below 400: the request is
\* redirected to uFinal or not; the body is a text page with or without Open
\* Graph tags and an oEmbed link in its head, or an image, a video or a pdf
\* (in which no tag is found).
ChainChunks(u) ==
    {Page(TextHTML, t, og, d, f) :
        t \in {<<>>, RichToks, SpamToks}, og \in {<<>>, <<RichOG>>, <<SpamOG>>},
        d \in {<<>>, <<epSpam>>, <<epFtp>>}, f \in {u, uFinal}}
    \cup
    {Page(m, t, <<>>, <<>>, f) :
        m \in {VideoMP4, ImagePNG, OtherPDF}, t \in {<<>>, RichToks},
        f \in {u, uFinal}}

\* the pixel size imageDimensions finds for an image url
ImageSize(url) == [width |-> 8, height |-> 6]

\* ---------------------------------------------------------- configuration

\* h.pmap, built from BlacklistPrefix: prefixes "http://bad.example"
BlacklistPrefix == {[scheme |-> "http", host |-> "bad.example"]}

\* h.pmap != nil && h.pmap.Match(link)
PrefixMatch(link) == [scheme |-> link.scheme, host |-> link.host] \in BlacklistPrefix

\* h.titleBlacklist (lower-case fragments)
titleBlacklist == << <<"s", "p", "a", "m">> >>

\* type Metadata: the zero value
Metadata ==
    [Title |-> <<>>, Type |-> "", Description |-> "", Image |-> EmptyURL,
     ImageWidth |-> 0, ImageHeight |-> 0, IconType |-> "", IconUrl |-> EmptyURL]

\* h.fetchers: two custom fetchers. For host c.example the first reports a
\* match with empty Metadata and the second a match with a title; for host
\* d.example only the second matches, with a title that holds a forbidden
\* fragment; for host e.example the first matches, with an icon type but no
\* icon url and an image that is not served over http.
fetchers == <<1, 2>>

FetchFunc(k, url) ==
    CASE url.host = "c.example" /\ k = 1 -> [meta |-> <<Metadata>>, ok |-> TRUE]
      [] url.host = "c.example" /\ k = 2 ->
           [meta |-> <<[Metadata EXCEPT !.Title = <<"C">>, !.Type = "custom"]>>,
            ok |-> TRUE]
      [] url.host = "d.example" /\ k = 2 ->
           [meta |-> <<[Metadata EXCEPT !.Title = <<"S", "p", "a", "m">>,
                                        !.Type = "custom"]>>,
            ok |-> TRUE]
      [] url.host = "e.example" /\ k = 1 ->
           [meta |-> <<[Metadata EXCEPT !.Title = <<"E">>, !.IconType = "image/png",
                                        !.Image = MkURL("ftp", "e.example", "/i.png"),
                                        !.ImageWidth = 2, !.ImageHeight = 2]>>,
            ok |-> TRUE]
      [] OTHER -> [meta |-> <<>>, ok |-> FALSE]

\* func (m *Metadata) Valid() bool, on a pointer that is not nil:
\* m != nil || m.Title != "" || m.Description != "" || m.Image != ""
Valid(m) ==
    \/ m # <<>>
    \/ m[1].Title # <<>>
    \/ m[1].Description # ""
    \/ m[1].Image # EmptyURL

\* ------------------------------------------------- processURL, the chain

\* func openGraphParseHTML(chunk *pageChunk) *unfurlResult
openGraphParseHTML(chunk) == chunk.data.og

\* func (p *pageChunk) oembedEndpoint(fn oembed.LookupFunc) (url string, found bool)
oembedEndpoint(chunk) ==
    IF oembedLookupFunc(chunk.url) # <<>> THEN oembedLookupFunc(chunk.url)
    ELSE IF ~chunk.data.readable THEN <<>>
    ELSE chunk.data.discover

\* func absoluteImageURL(baseURL, imgURL string) (string, error)
absoluteImageURL(base, ref) ==
    IF ref = EmptyURL THEN [err |-> "errEmptyImageURL", url |-> EmptyURL]
    ELSE IF ref.scheme = "" /\ ref.host = ""
    THEN [err |-> "nil", url |-> MkURL(base.scheme, base.host, ref.path)]
    ELSE IF ref.scheme \in {"http", "https"} THEN [err |-> "nil", url |-> ref]
    ELSE [err |-> "error", url |-> EmptyURL]

\* func validURL(s string) bool
validURL(u) == u.scheme \in {"http", "https"} /\ u.host # ""

\* processURL: for _, f := range h.fetchers, from fetcher k on
RECURSIVE RunFetchers(_, _, _)
RunFetchers(k, result, url) ==
    IF k > Len(fetchers)
    THEN [matched |-> FALSE, result |-> result, calls |-> Len(fetchers)]
    ELSE LET r == FetchFunc(fetchers[k], url) IN
         IF ~r.ok \/ ~Valid(r.meta) THEN RunFetchers(k + 1, result, url)
         ELSE LET meta == r.meta[1] IN
              [matched |-> TRUE, calls |-> k,
               result |-> [result EXCEPT
                   !.Title = meta.Title, !.Type = meta.Type,
                   !.Description = meta.Description, !.Image = meta.Image,
                   !.ImageWidth = meta.ImageWidth, !.ImageHeight = meta.ImageHeight,
                   !.IconUrl = meta.IconUrl, !.IconType = meta.IconType]]

\* processURL from the fetchers loop to the hasMatch label. oembedOK says
\* whether fetchOembed, if it is called, returns a document. The answer
\* carries the result and, in order, the strategies that were consulted.
Strategies(result, chunk, oembedOK) ==
    LET c == RunFetchers(1, result, chunk.url)
        custom == [k \in 1..c.calls |-> "custom"]
        og == openGraphParseHTML(chunk)
        ep == oembedEndpoint(chunk)
    IN  IF c.matched
        THEN [result |-> c.result, used |-> custom, won |-> "custom"]
        ELSE IF og # <<>> /\ ~blacklisted(titleBlacklist, og[1].Title)
        THEN [result |-> Merge(c.result, og[1]),
              used |-> custom \o <<"opengraph">>, won |-> "opengraph"]
        ELSE IF ep # <<>> /\ oembedOK
        THEN [result |-> Merge(c.result, OembedDoc(ep[1])),
              used |-> custom \o <<"opengraph", "oembed">>, won |-> "oembed"]
        ELSE [result |-> c.result,
              used |-> custom \o <<"opengraph">>
                       \o (IF ep # <<>> THEN <<"oembed">> ELSE <<>>),
              won |-> ""]

\* processURL at the hasMatch label: the generic HTML scan
HasMatch(result, chunk) ==
    LET res == basicParseHTML(chunk)
    IN  IF ~blacklisted(titleBlacklist, res.Title) THEN Merge(result, res)
        ELSE result

\* processURL: if absURL, err := absoluteImageURL(result.URL, result.IconUrl);
\* err == nil { result.IconUrl = absURL }
PostIcon(result) ==
    LET icon == absoluteImageURL(result.URL, result.IconUrl)
    IN  IF icon.err = "nil" THEN [result EXCEPT !.IconUrl = icon.url] ELSE result

\* PostImage whose error branch clears the image url and keeps the size
PostImageKeepSize(r1, FetchImageSize, dimsOK) ==
    LET img == absoluteImageURL(r1.URL, r1.Image)
    IN  CASE img.err = "errEmptyImageURL" -> r1
          [] img.err = "nil" ->
               LET r2 == [r1 EXCEPT !.Image = IF validURL(img.url) THEN img.url
                                               ELSE EmptyURL]
               IN  IF r2.Image # EmptyURL /\ FetchImageSize
                      /\ (r2.ImageWidth = 0 \/ r2.ImageHeight = 0) /\ dimsOK
                   THEN [r2 EXCEPT !.ImageWidth = ImageSize(r2.Image).width,
                                   !.ImageHeight = ImageSize(r2.Image).height]
                   ELSE r2
          [] OTHER -> [r1 EXCEPT !.Image = EmptyURL]

\* processURL: switch absURL, err := absoluteImageURL(result.URL, result.Image).
\* dimsOK says whether imageDimensions, if it is called, finds the size.
PostImage(r1, FetchImageSize, dimsOK) ==
    LET img == absoluteImageURL(r1.URL, r1.Image)
    IN  CASE img.err = "errEmptyImageURL" -> r1
          [] img.err = "nil" ->
               LET r2 == [r1 EXCEPT !.Image = IF validURL(img.url) THEN img.url
                                               ELSE EmptyURL]
               IN  IF r2.Image # EmptyURL /\ FetchImageSize
                      /\ (r2.ImageWidth = 0 \/ r2.ImageHeight = 0) /\ dimsOK
                   THEN [r2 EXCEPT !.ImageWidth = ImageSize(r2.Image).width,
                                   !.ImageHeight = ImageSize(r2.Image).height]
                   ELSE r2
          [] OTHER ->
               [r1 EXCEPT !.Image = EmptyURL, !.ImageWidth = 0, !.ImageHeight = 0]

\* processURL: the icon and image post-processing
PostProcess(result, FetchImageSize, dimsOK) ==
    PostImage(PostIcon(result), FetchImageSize, dimsOK)

\* processURL from the fetchers loop to the end of the image
\* post-processing, on a chunk
UnfurlChunk(res, chunk_, FetchImageSize, oembedOK, dimsOK) ==
    LET s == Strategies(res, chunk_, oembedOK)
    IN  [result |-> PostProcess(HasMatch(s.result, chunk_), FetchImageSize, dimsOK),
         used |-> s.used \o <<"html">>,
         won |-> s.won]

\* the same on the chunk of link u
Unfurl(res, u, FetchImageSize, oembedOK, dimsOK) ==
    UnfurlChunk(res, Web(u).chunk, FetchImageSize, oembedOK, dimsOK)

\* ------------------------------------------------------------- the cache

\* func mcKey(s string) string: the hex sha1 of the link, one key per link
mcKey(link) == <<"sha1", link>>

\* json.Marshal(result): the exported fields; idx is not exported
Marshal(r) ==
    [URL |-> r.URL, Title |-> r.Title, Type |-> r.Type,
     Description |-> r.Description, SiteName |-> r.SiteName, Image |-> r.Image,
     ImageWidth |-> r.ImageWidth, ImageHeight |-> r.ImageHeight,
     IconUrl |-> r.IconUrl, IconType |-> r.IconType]

\* json.Unmarshal(it.Value, &cached): idx keeps its zero value
Unmarshal(j) ==
    [URL |-> j.URL, Title |-> j.Title, Type |-> j.Type,
     Description |-> j.Description, SiteName |-> j.SiteName, Image |-> j.Image,
     ImageWidth |-> j.ImageWidth, ImageHeight |-> j.ImageHeight,
     IconUrl |-> j.IconUrl, IconType |-> j.IconType, idx |-> 0]

\* ------------------------------------------------------------- the state

\* make(chan *unfurlResult, 1)
JobResultsCap == 1

\* the goroutine ServeHTTP starts for position i (from 1) of batch b
AllProcs == Batches \X (1..MaxUrls)
NoProc == <<0, 0>>

VARIABLES
    urls,        \* urls[b]: the links parseURLsMax gave batch b
    conf,        \* the handler's configuration: Cache set, FetchImageSize
    cancelled,   \* cancelled[b]: ctx.Done() of batch b's request is closed
    pc,          \* pc[p]: where goroutine p stands
    result,      \* result[p]: processURL's result, as built so far
    waitCh,      \* waitCh[p]: the channel p found in h.inFlight and waits on
    via,         \* via[p]: the return statement processURL left by
    hist,        \* hist[p]: what p's processURL call did (fetches, strategies, cache writes)
    mu,          \* h.mu: the goroutine that holds it, or NoProc
    inFlight,    \* h.inFlight: link -> its channel (named by the goroutine that
                 \* made it), NoProc for a link that has no entry
    closed,      \* the channels that are closed
    cache,       \* memcached: key -> <<>> (no item) or <<item>>
    jobResults,  \* jobResults[b]: the buffer of batch b's channel
    results,     \* results[b]: the collector's slice, in arrival order
    serve,       \* serve[b]: where ServeHTTP of batch b stands
    response,    \* response[b]: the results ServeHTTP encoded, in order
    chunk,       \* chunk[p]: the pageChunk fetchData gave p, <<>> for none
    steps        \* steps[p]: the steps p has taken from the fetchers loop on,
                 \* each with the result before and after it

vars == <<urls, conf, cancelled, pc, result, waitCh, via, hist, mu, inFlight,
          closed, cache, jobResults, results, serve, response, chunk, steps>>

Procs == {p \in AllProcs : p[2] <= Len(urls[p[1]])}

link(p) == urls[p[1]][p[2]]

NoHist == [fetches |-> 0, used |-> <<>>, won |-> "", sets |-> 0, woken |-> {}]

\* the lists of at most n links
Lists(S, n) == UNION {[1..k -> S] : k \in 0..n}

\* The record a full run of the pipeline for link u leaves in the cache
\* (position 0, the oEmbed and image size calls succeeding)
WarmItem(u, c) ==
    [decodes |-> TRUE,
     json |-> Marshal(Unfurl(NewResult(0, u), u, c.FetchImageSize, TRUE, TRUE).result)]

\* an item whose payload json.Unmarshal rejects
CorruptItem == [decodes |-> FALSE, json |-> Marshal(unfurlResult)]

\* The state as ServeHTTP of every request has started its goroutines: the
\* batches are over the links of S (a batch without links stands for no
\* request), the handler is configured by one of confs, and memcached holds
\* nothing or, for the link warm, the record of an earlier run or an item that
\* does not decode. The two batches are interchangeable: the longer is batch 1.
\* There are n goroutines at most.
InitProcs(S, confs, warm, n) ==
    /\ urls \in [Batches -> Lists(S, MaxUrls)]
    /\ Len(urls[2]) <= Len(urls[1])
    /\ Len(urls[1]) + Len(urls[2]) <= n
    /\ conf \in confs
    /\ cancelled = [b \in Batches |-> FALSE]
    /\ pc = [p \in AllProcs |-> IF p[2] <= Len(urls[p[1]]) THEN "lock" ELSE "none"]
    /\ result = [p \in AllProcs |->
                   IF p[2] <= Len(urls[p[1]])
                   THEN NewResult(p[2] - 1, urls[p[1]][p[2]])
                   ELSE unfurlResult]
    /\ waitCh = [p \in AllProcs |-> NoProc]
    /\ via = [p \in AllProcs |-> ""]
    /\ hist = [p \in AllProcs |-> NoHist]
    /\ mu = NoProc
    /\ inFlight = [u \in AllLinks |-> NoProc]
    /\ closed = {}
    /\ \E item \in {<<>>} \cup (IF conf.Cache
                                 THEN {<<CorruptItem>>, <<WarmItem(warm, conf)>>}
                                 ELSE {}) :
         cache = [k \in {mcKey(u) : u \in AllLinks} |->
                    IF k = mcKey(warm) THEN item ELSE <<>>]
    /\ jobResults = [b \in Batches |-> <<>>]
    /\ results = [b \in Batches |-> <<>>]
    /\ serve = [b \in Batches |-> IF urls[b] = <<>> THEN "none" ELSE "collect"]
    /\ response = [b \in Batches |-> <<>>]
    /\ chunk = [p \in AllProcs |-> <<>>]
    /\ steps = [p \in AllProcs |-> <<>>]

\* the same with MaxProcs goroutines at most
InitWith(S, confs, warm) == InitProcs(S, confs, warm, MaxProcs)

Configs == [Cache : BOOLEAN, FetchImageSize : BOOLEAN]

Init == InitWith({uRich, uGone, uBad}, Configs, uRich)

\* ------------------------------------------------ processURL: the registry

\* h.mu.Lock() at the top of the loop
Lock(p) ==
    /\ pc[p] = "lock"
    /\ mu = NoProc
    /\ mu' = p
    /\ pc' = [pc EXCEPT ![p] = "locked"]
    /\ UNCHANGED <<chunk, steps, urls, conf, cancelled, result, waitCh, via, hist, inFlight,
                   closed, cache, jobResults, results, serve, response>>

\* if ch, ok := h.inFlight[link]; ok { h.mu.Unlock(); ... select
Lookup(p) ==
    /\ pc[p] = "locked"
    /\ inFlight[link(p)] # NoProc
    /\ waitCh' = [waitCh EXCEPT ![p] = inFlight[link(p)]]
    /\ mu' = NoProc
    /\ pc' = [pc EXCEPT ![p] = "wait"]
    /\ UNCHANGED <<chunk, steps, urls, conf, cancelled, result, via, hist, inFlight,
                   closed, cache, jobResults, results, serve, response>>

\* Insert without the lookup: the entry is made whatever the map holds
InsertUnchecked(p) ==
    /\ pc[p] = "locked"
    /\ inFlight' = [inFlight EXCEPT ![link(p)] = p]
    /\ mu' = NoProc
    /\ pc' = [pc EXCEPT ![p] = "owner"]
    /\ UNCHANGED <<chunk, steps, urls, conf, cancelled, result, waitCh, via, hist,
                   closed, cache, jobResults, results, serve, response>>

\* Insert into a registry that holds one entry at most, whatever its link
InsertGlobal(p) ==
    /\ pc[p] = "locked"
    /\ \A u \in AllLinks : inFlight[u] = NoProc
    /\ inFlight' = [inFlight EXCEPT ![link(p)] = p]
    /\ mu' = NoProc
    /\ pc' = [pc EXCEPT ![p] = "owner"]
    /\ UNCHANGED <<chunk, steps, urls, conf, cancelled, result, waitCh, via, hist,
                   closed, cache, jobResults, results, serve, response>>

\* else { ch = make(chan struct{}); h.inFlight[link] = ch; h.mu.Unlock();
\* defer ...; break }
Insert(p) ==
    /\ pc[p] = "locked"
    /\ inFlight[link(p)] = NoProc
    /\ inFlight' = [inFlight EXCEPT ![link(p)] = p]
    /\ mu' = NoProc
    /\ pc' = [pc EXCEPT ![p] = "owner"]
    /\ UNCHANGED <<chunk, steps, urls, conf, cancelled, result, waitCh, via, hist,
                   closed, cache, jobResults, results, serve, response>>

\* case <-ch: the channel is closed; back to the top of the loop
WaitWake(p) ==
    /\ pc[p] = "wait"
    /\ waitCh[p] \in closed
    /\ pc' = [pc EXCEPT ![p] = "lock"]
    /\ hist' = [hist EXCEPT ![p].woken = @ \cup {waitCh[p]}]
    /\ UNCHANGED <<chunk, steps, urls, conf, cancelled, result, waitCh, via, mu, inFlight,
                   closed, cache, jobResults, results, serve, response>>

\* WaitCancel of a processURL that registered its deferred function before
\* the loop: the cancelled waiter runs it
WaitCancelDeferred(p) ==
    /\ pc[p] = "wait"
    /\ cancelled[p[1]]
    /\ via' = [via EXCEPT ![p] = "cancel"]
    /\ pc' = [pc EXCEPT ![p] = "deferred"]
    /\ UNCHANGED <<chunk, steps, urls, conf, cancelled, result, waitCh, hist, mu, inFlight,
                   closed, cache, jobResults, results, serve, response>>

\* case <-ctx.Done(): return result
WaitCancel(p) ==
    /\ pc[p] = "wait"
    /\ cancelled[p[1]]
    /\ via' = [via EXCEPT ![p] = "cancel"]
    /\ pc' = [pc EXCEPT ![p] = "deliver"]
    /\ UNCHANGED <<chunk, steps, urls, conf, cancelled, result, waitCh, hist, mu, inFlight,
                   closed, cache, jobResults, results, serve, response>>

\* the deferred function: h.mu.Lock()
DeferLock(p) ==
    /\ pc[p] = "deferred"
    /\ mu = NoProc
    /\ mu' = p
    /\ pc' = [pc EXCEPT ![p] = "deleting"]
    /\ UNCHANGED <<chunk, steps, urls, conf, cancelled, result, waitCh, via, hist, inFlight,
                   closed, cache, jobResults, results, serve, response>>

\* the deferred function: delete(h.inFlight, link); h.mu.Unlock()
DeferDelete(p) ==
    /\ pc[p] = "deleting"
    /\ inFlight' = [inFlight EXCEPT ![link(p)] = NoProc]
    /\ mu' = NoProc
    /\ pc' = [pc EXCEPT ![p] = "closing"]
    /\ UNCHANGED <<chunk, steps, urls, conf, cancelled, result, waitCh, via, hist,
                   closed, cache, jobResults, results, serve, response>>

\* DeferClose of a deferred function that never closes the channel
DeferCloseSkipped(p) ==
    /\ pc[p] = "closing"
    /\ pc' = [pc EXCEPT ![p] = "deliver"]
    /\ UNCHANGED <<chunk, steps, urls, conf, cancelled, result, waitCh, via, hist, mu,
                   inFlight, closed, cache, jobResults, results, serve, response>>

\* the deferred function: close(ch)
DeferClose(p) ==
    /\ pc[p] = "closing"
    /\ closed' = closed \cup {p}
    /\ pc' = [pc EXCEPT ![p] = "deliver"]
    /\ UNCHANGED <<chunk, steps, urls, conf, cancelled, result, waitCh, via, hist, mu,
                   inFlight, cache, jobResults, results, serve, response>>

\* ------------------------------------------------ processURL: the pipeline

\* CheckBlacklist of a processURL that registers its deferred function
\* after this test: the return for a blacklisted link runs no clean-up
CheckBlacklistNoDefer(p) ==
    /\ pc[p] = "owner"
    /\ IF PrefixMatch(link(p))
       THEN /\ via' = [via EXCEPT ![p] = "blacklisted"]
            /\ pc' = [pc EXCEPT ![p] = "deliver"]
       ELSE /\ pc' = [pc EXCEPT ![p] = "cache"]
            /\ UNCHANGED via
    /\ UNCHANGED <<chunk, steps, urls, conf, cancelled, result, waitCh, hist, mu,
                   inFlight, closed, cache, jobResults, results, serve, response>>

\* if h.pmap != nil && h.pmap.Match(link) { return result }
CheckBlacklist(p) ==
    /\ pc[p] = "owner"
    /\ IF PrefixMatch(link(p))
       THEN /\ via' = [via EXCEPT ![p] = "blacklisted"]
            /\ pc' = [pc EXCEPT ![p] = "deferred"]
       ELSE /\ pc' = [pc EXCEPT ![p] = "cache"]
            /\ UNCHANGED via
    /\ UNCHANGED <<chunk, steps, urls, conf, cancelled, result, waitCh, hist, mu, inFlight,
                   closed, cache, jobResults, results, serve, response>>

\* CacheLookup that never finds an item
CacheLookupMiss(c, u) == <<>>

\* mc.Get(mcKey(link)) and json.Unmarshal: the cached record, or <<>> when
\* there is no item or it does not decode
CacheLookup(c, u) ==
    LET it == c[mcKey(u)]
    IN  IF it # <<>> /\ it[1].decodes THEN <<Unmarshal(it[1].json)>> ELSE <<>>

\* Restamp that keeps the index json.Unmarshal left
RestampNone(cached, i) == cached

\* cached.idx = i
Restamp(cached, i) == [cached EXCEPT !.idx = i]

\* if mc := h.Cache; mc != nil { ... cached.idx = i; return &cached };
\* otherwise on to h.fetchData
CacheGet(p) ==
    /\ pc[p] = "cache"
    /\ LET hit == IF conf.Cache THEN CacheLookup(cache, link(p)) ELSE <<>>
       IN  IF hit # <<>>
           THEN /\ result' = [result EXCEPT ![p] = Restamp(hit[1], p[2] - 1)]
                /\ via' = [via EXCEPT ![p] = "hit"]
                /\ pc' = [pc EXCEPT ![p] = "deferred"]
                /\ UNCHANGED hist
           ELSE /\ pc' = [pc EXCEPT ![p] = "fetch"]
                /\ hist' = [hist EXCEPT ![p].fetches = @ + 1]
                /\ UNCHANGED <<result, via>>
    /\ UNCHANGED <<chunk, steps, urls, conf, cancelled, waitCh, mu, inFlight,
                   closed, cache, jobResults, results, serve, response>>

\* FetchFail that returns a fresh zero result in place of result
FetchFailZero(p) ==
    /\ pc[p] = "fetch"
    /\ result' = [result EXCEPT ![p] = unfurlResult]
    /\ via' = [via EXCEPT ![p] = "fetcherr"]
    /\ pc' = [pc EXCEPT ![p] = "deferred"]
    /\ UNCHANGED <<chunk, steps, urls, conf, cancelled, waitCh, hist, mu, inFlight,
                   closed, cache, jobResults, results, serve, response>>

\* chunk, err := h.fetchData(ctx, result.URL) returns an error (the transport
\* failed, the context was cancelled, or the status is 400 or more):
\* return result
FetchFail(p) ==
    /\ pc[p] = "fetch"
    /\ via' = [via EXCEPT ![p] = "fetcherr"]
    /\ pc' = [pc EXCEPT ![p] = "deferred"]
    /\ UNCHANGED <<chunk, steps, urls, conf, cancelled, result, waitCh, hist, mu, inFlight,
                   closed, cache, jobResults, results, serve, response>>

\* FetchOK of a fetchData that does not look at the status
FetchOKAnyStatus(p) ==
    /\ pc[p] = "fetch"
    /\ ~cancelled[p[1]]
    /\ pc' = [pc EXCEPT ![p] = "extract"]
    /\ UNCHANGED <<chunk, steps, urls, conf, cancelled, result, waitCh, via, hist, mu, inFlight,
                   closed, cache, jobResults, results, serve, response>>

\* h.fetchData returns the chunk: the context is not cancelled and the
\* status is below 400
FetchOK(p) ==
    /\ pc[p] = "fetch"
    /\ ~cancelled[p[1]]
    /\ Web(link(p)).status < 400
    /\ pc' = [pc EXCEPT ![p] = "extract"]
    /\ UNCHANGED <<chunk, steps, urls, conf, cancelled, result, waitCh, via, hist, mu, inFlight,
                   closed, cache, jobResults, results, serve, response>>

\* Extract, its control part: processURL goes on from the fetch to the cache
\* write, and touches nothing shared
ExtractMove(p) ==
    /\ pc[p] = "extract"
    /\ pc' = [pc EXCEPT ![p] = "store"]
    /\ UNCHANGED <<chunk, steps, urls, conf, cancelled, waitCh, via, mu, inFlight,
                   closed, cache, jobResults, results, serve, response>>

\* from the fetchers loop to the end of the image post-processing; the
\* calls to fetchOembed and imageDimensions fail once the context is cancelled
Extract(p) ==
    /\ ExtractMove(p)
    /\ \E oembedOK \in {ok \in BOOLEAN : ~(ok /\ cancelled[p[1]])},
          dimsOK \in {ok \in BOOLEAN : ~(ok /\ cancelled[p[1]])} :
         LET x == Unfurl(result[p], link(p), conf.FetchImageSize, oembedOK, dimsOK)
         IN  /\ result' = [result EXCEPT ![p] = x.result]
             /\ hist' = [hist EXCEPT ![p].used = x.used, ![p].won = x.won]

\* if mc := h.Cache; mc != nil && !result.Empty() { mc.Set(...) }; return result.
\* stored says whether memcached took the item (the error of Set is dropped)
CacheSet(p) ==
    /\ pc[p] = "store"
    /\ IF conf.Cache /\ ~Empty(result[p])
       THEN \E stored \in BOOLEAN :
              /\ cache' = IF stored
                          THEN [cache EXCEPT ![mcKey(link(p))] =
                                  <<[decodes |-> TRUE, json |-> Marshal(result[p])]>>]
                          ELSE cache
              /\ hist' = [hist EXCEPT ![p].sets = @ + (IF stored THEN 1 ELSE 0)]
       ELSE UNCHANGED <<cache, hist>>
    /\ via' = [via EXCEPT ![p] = "full"]
    /\ pc' = [pc EXCEPT ![p] = "deferred"]
    /\ UNCHANGED <<chunk, steps, urls, conf, cancelled, result, waitCh, mu, inFlight,
                   closed, jobResults, results, serve, response>>

\* --------------------------------------------------------------- ServeHTTP

\* the goroutine's select: case jobResults <- h.processURL(ctx, i, link)
Send(p) ==
    /\ pc[p] = "deliver"
    /\ Len(jobResults[p[1]]) < JobResultsCap
    /\ jobResults' = [jobResults EXCEPT ![p[1]] = Append(@, result[p])]
    /\ pc' = [pc EXCEPT ![p] = "done"]
    /\ UNCHANGED <<chunk, steps, urls, conf, cancelled, result, waitCh, via, hist, mu, inFlight,
                   closed, cache, results, serve, response>>

\* a plain send in place of the select: the goroutine never leaves by ctx.Done
ExitNever(p) ==
    /\ pc[p] = "deliver"
    /\ FALSE
    /\ pc' = [pc EXCEPT ![p] = "done"]
    /\ UNCHANGED <<chunk, steps, urls, conf, cancelled, result, waitCh, via, hist, mu, inFlight,
                   closed, cache, jobResults, results, serve, response>>

\* the goroutine's select: case <-ctx.Done()
Exit(p) ==
    /\ pc[p] = "deliver"
    /\ cancelled[p[1]]
    /\ pc' = [pc EXCEPT ![p] = "done"]
    /\ UNCHANGED <<chunk, steps, urls, conf, cancelled, result, waitCh, via, hist, mu, inFlight,
                   closed, cache, jobResults, results, serve, response>>

\* the collecting loop: case res := <-jobResults: results = append(results, res)
Receive(b) ==
    /\ serve[b] = "collect"
    /\ Len(results[b]) < Len(urls[b])
    /\ jobResults[b] # <<>>
    /\ results' = [results EXCEPT ![b] = Append(@, Head(jobResults[b]))]
    /\ jobResults' = [jobResults EXCEPT ![b] = Tail(@)]
    /\ UNCHANGED <<chunk, steps, urls, conf, cancelled, pc, result, waitCh, via, hist, mu,
                   inFlight, closed, cache, serve, response>>

\* Abort that encodes what was collected so far
AbortPartial(b) ==
    /\ serve[b] = "collect"
    /\ Len(results[b]) < Len(urls[b])
    /\ cancelled[b]
    /\ response' = [response EXCEPT ![b] =
                      LET sorted == Sort(results[b])
                      IN  [k \in 1..Len(sorted) |-> normalize(sorted[k])]]
    /\ serve' = [serve EXCEPT ![b] = "aborted"]
    /\ UNCHANGED <<chunk, steps, urls, conf, cancelled, pc, result, waitCh, via, hist, mu,
                   inFlight, closed, cache, jobResults, results>>

\* the collecting loop: case <-ctx.Done(): return
Abort(b) ==
    /\ serve[b] = "collect"
    /\ Len(results[b]) < Len(urls[b])
    /\ cancelled[b]
    /\ serve' = [serve EXCEPT ![b] = "aborted"]
    /\ UNCHANGED <<chunk, steps, urls, conf, cancelled, pc, result, waitCh, via, hist, mu,
                   inFlight, closed, cache, jobResults, results, response>>

\* after the loop: sort.Sort(results); r.normalize() for each;
\* json.NewEncoder(w).Encode(results)
Respond(b) ==
    /\ serve[b] = "collect"
    /\ Len(results[b]) = Len(urls[b])
    /\ response' = [response EXCEPT ![b] =
                      LET sorted == Sort(results[b])
                      IN  [k \in 1..Len(sorted) |-> normalize(sorted[k])]]
    /\ serve' = [serve EXCEPT ![b] = "responded"]
    /\ UNCHANGED <<chunk, steps, urls, conf, cancelled, pc, result, waitCh, via, hist, mu,
                   inFlight, closed, cache, jobResults, results>>

\* the request's context is cancelled (the client went away, a deadline passed)
Cancel(b) ==
    /\ serve[b] = "collect"
    /\ ~cancelled[b]
    /\ cancelled' = [cancelled EXCEPT ![b] = TRUE]
    /\ UNCHANGED <<chunk, steps, urls, conf, pc, result, waitCh, via, hist, mu, inFlight,
                   closed, cache, jobResults, results, serve, response>>

Next ==
    \/ \E p \in Procs :
         \/ Lock(p) \/ Lookup(p) \/ Insert(p) \/ WaitWake(p) \/ WaitCancel(p)
         \/ CheckBlacklist(p) \/ CacheGet(p) \/ FetchFail(p) \/ FetchOK(p)
         \/ Extract(p) \/ CacheSet(p)
         \/ DeferLock(p) \/ DeferDelete(p) \/ DeferClose(p)
         \/ Send(p) \/ Exit(p)
    \/ \E b \in Batches : Receive(b) \/ Abort(b) \/ Respond(b) \/ Cancel(b)

Spec == Init /\ [][Next]_vars

\* ------------------------------------------- processURL under scheduling

\* the steps of processURL in goroutine p, up to its return
ProcNext(p) ==
    /\ p \in Procs
    /\ \/ Lock(p) \/ Lookup(p) \/ Insert(p) \/ WaitWake(p) \/ WaitCancel(p)
       \/ CheckBlacklist(p) \/ CacheGet(p) \/ FetchFail(p) \/ FetchOK(p)
       \/ Extract(p) \/ CacheSet(p)
       \/ DeferLock(p) \/ DeferDelete(p) \/ DeferClose(p)

\* Up to MaxSame goroutines, in one or two requests, all for the same link
LiveInit ==
    InitProcs({uRich}, {c \in Configs : ~c.FetchImageSize}, uRich, MaxSame)

\* the processURL calls, and the cancellation of their requests
LiveNext ==
    \/ \E p \in AllProcs : ProcNext(p)
    \/ \E b \in Batches : Cancel(b)

\* A step of goroutine p as far as its control goes: ExtractMove stands for
\* Extract, so ProcMove(p) is enabled exactly when ProcNext(p) is, and every
\* ProcNext(p) step is a ProcMove(p) step, which changes pc[p].
ProcMove(p) ==
    /\ p \in Procs
    /\ \/ Lock(p) \/ Lookup(p) \/ Insert(p) \/ WaitWake(p) \/ WaitCancel(p)
       \/ CheckBlacklist(p) \/ CacheGet(p) \/ FetchFail(p) \/ FetchOK(p)
       \/ ExtractMove(p) \/ CacheSet(p)
       \/ DeferLock(p) \/ DeferDelete(p) \/ DeferClose(p)

\* The scheduler runs every goroutine that can take a step, a fetch or cache
\* call returns, and a goroutine blocked on h.mu gets it once it stays free.
LiveSpec ==
    LiveInit /\ [][LiveNext]_vars /\ \A p \in AllProcs : WF_pc(ProcMove(p))

\* ----------------------------------------- ServeHTTP under scheduling

\* the select of goroutine p once its processURL call has returned
Deliver(p) == p \in Procs /\ (Send(p) \/ Exit(p))

\* the select of the collecting loop of request b, and what follows the loop
Collect(b) == Receive(b) \/ Abort(b) \/ Respond(b)

\* The requests of Init, served by a handler that does not fetch image sizes
ServeInit == InitWith({uRich, uGone, uBad}, {c \in Configs : ~c.FetchImageSize}, uRich)

\* The scheduler runs a goroutine whose select has a ready case, and the
\* handler's own goroutine likewise.
ServeSpec ==
    /\ ServeInit /\ [][Next]_vars
    /\ \A p \in AllProcs : WF_pc(Deliver(p))
    /\ \A b \in Batches : WF_<<results, serve>>(Collect(b))

\* ------------------------------- processURL after the fetch, step by step

\* One step of processURL between the fetch and the cache write: the result
\* becomes post, the strategies in used were consulted and won, if not "",
\* is the one that matched.
ChainStep(p, by, post, next, used, won) ==
    /\ result' = [result EXCEPT ![p] = post]
    /\ steps' = [steps EXCEPT ![p] =
                   Append(@, [by |-> by, pre |-> result[p], post |-> post])]
    /\ hist' = [hist EXCEPT ![p].used = @ \o used,
                            ![p].won = IF won # "" THEN won ELSE @]
    /\ pc' = [pc EXCEPT ![p] = next]
    /\ UNCHANGED <<chunk, urls, conf, cancelled, waitCh, via, mu, inFlight,
                   closed, cache, jobResults, results, serve, response>>

\* for _, f := range h.fetchers { ... goto hasMatch }
CustomFetchers(p) ==
    /\ pc[p] = "fetchers"
    /\ LET c == RunFetchers(1, result[p], chunk[p][1].url)
       IN  ChainStep(p, "custom", c.result,
                     IF c.matched THEN "hasmatch" ELSE "opengraph",
                     [k \in 1..c.calls |-> "custom"],
                     IF c.matched THEN "custom" ELSE "")

\* if res := openGraphParseHTML(chunk); res != nil {
\*     if !blacklisted(h.titleBlacklist, res.Title) { result.Merge(res); goto hasMatch } }
OpenGraph(p) ==
    /\ pc[p] = "opengraph"
    /\ LET og == openGraphParseHTML(chunk[p][1])
       IN  IF og # <<>> /\ ~blacklisted(titleBlacklist, og[1].Title)
           THEN ChainStep(p, "opengraph", Merge(result[p], og[1]), "hasmatch",
                          <<"opengraph">>, "opengraph")
           ELSE ChainStep(p, "opengraph", result[p], "oembed", <<"opengraph">>, "")

\* if endpoint, found := chunk.oembedEndpoint(h.oembedLookupFunc); found {
\*     if res, err := fetchOembed(...); err == nil { result.Merge(res); goto hasMatch } }
Oembed(p) ==
    /\ pc[p] = "oembed"
    /\ LET ep == oembedEndpoint(chunk[p][1])
       IN  IF ep = <<>>
           THEN ChainStep(p, "oembed", result[p], "hasmatch", <<>>, "")
           ELSE \E oembedOK \in BOOLEAN :
                  IF oembedOK
                  THEN ChainStep(p, "oembed", Merge(result[p], OembedDoc(ep[1])),
                                 "hasmatch", <<"oembed">>, "oembed")
                  ELSE ChainStep(p, "oembed", result[p], "hasmatch", <<"oembed">>, "")

\* hasMatch: if res := basicParseHTML(chunk); res != nil {
\*     if !blacklisted(h.titleBlacklist, res.Title) { result.Merge(res) } }
BasicHTML(p) ==
    /\ pc[p] = "hasmatch"
    /\ ChainStep(p, "html", HasMatch(result[p], chunk[p][1]), "icon", <<"html">>, "")

\* the icon url is made absolute
IconURL(p) ==
    /\ pc[p] = "icon"
    /\ ChainStep(p, "icon", PostIcon(result[p]), "image", <<>>, "")

\* the image url is made absolute and checked, the image is measured
ImageURL(p) ==
    /\ pc[p] = "image"
    /\ \E dimsOK \in BOOLEAN :
         ChainStep(p, "image", PostImage(result[p], conf.FetchImageSize, dimsOK),
                   "store", <<>>, "")

\* One request for one link of ChainLinks, its processURL being the owner of
\* the link with an empty cache behind it, as fetchData has just returned one
\* of the chunks the server may answer with.
ChainInit ==
    \E u \in ChainLinks :
      \E c \in ChainChunks(u) \cup (IF u = uPlain THEN ScanChunks(u, MaxTags) ELSE {}) :
        /\ urls = [b \in Batches |-> IF b = 1 THEN <<u>> ELSE <<>>]
        /\ conf \in Configs
        /\ cancelled = [b \in Batches |-> FALSE]
        /\ pc = [p \in AllProcs |-> IF p = <<1, 1>> THEN "fetchers" ELSE "none"]
        /\ result = [p \in AllProcs |->
                       IF p = <<1, 1>> THEN NewResult(0, u) ELSE unfurlResult]
        /\ waitCh = [p \in AllProcs |-> NoProc]
        /\ via = [p \in AllProcs |-> ""]
        /\ hist = [p \in AllProcs |->
                     IF p = <<1, 1>> THEN [NoHist EXCEPT !.fetches = 1] ELSE NoHist]
        /\ mu = NoProc
        /\ inFlight = [v \in AllLinks |-> IF v = u THEN <<1, 1>> ELSE NoProc]
        /\ closed = {}
        /\ cache = [k \in {mcKey(v) : v \in AllLinks} |-> <<>>]
        /\ jobResults = [b \in Batches |-> <<>>]
        /\ results = [b \in Batches |-> <<>>]
        /\ serve = [b \in Batches |-> IF b = 1 THEN "collect" ELSE "none"]
        /\ response = [b \in Batches |-> <<>>]
        /\ chunk = [p \in AllProcs |-> IF p = <<1, 1>> THEN <<c>> ELSE <<>>]
        /\ steps = [p \in AllProcs |-> <<>>]

ChainNext ==
    \E p \in Procs :
        \/ CustomFetchers(p) \/ OpenGraph(p) \/ Oembed(p) \/ BasicHTML(p)
        \/ IconURL(p) \/ ImageURL(p) \/ CacheSet(p)

ChainSpec == ChainInit /\ [][ChainNext]_vars

\* The steps after the fetch compose to what Extract does in one step
ChainAgreesWithExtract ==
    \A p \in Procs :
        pc[p] = "store" /\ chunk[p] # <<>> =>
            \E oembedOK \in BOOLEAN, dimsOK \in BOOLEAN :
                LET x == UnfurlChunk(NewResult(p[2] - 1, link(p)), chunk[p][1],
                                     conf.FetchImageSize, oembedOK, dimsOK)
                IN  /\ result[p] = x.result
                    /\ hist[p].used = x.used
                    /\ hist[p].won = x.won

\* ------------------------------------------------------------ properties

\* p holds the registry entry of its link: from the insert to the deferred delete
OwnerStages == {"owner", "cache", "fetch", "extract", "store", "deferred", "deleting"}

IsOwner(p) == pc[p] \in OwnerStages

\* C1: for every link, at most one processURL execution is owner (past the
\* acquire loop and holding the registry entry, which then names it), so at
\* most one primary fetch for that link is in flight.
C1_SingleOwner ==
    /\ \A p, q \in Procs :
         (p # q /\ link(p) = link(q)) => ~(IsOwner(p) /\ IsOwner(q))
    /\ \A p \in Procs : IsOwner(p) => inFlight[link(p)] = p
    /\ \A p, q \in Procs :
         (p # q /\ link(p) = link(q)) => ~(pc[p] = "fetch" /\ pc[q] = "fetch")

\* two requests name one link: one is fetching, the other waits on its channel
C1_Witness ==
    \E p, q \in Procs :
        /\ p # q /\ link(p) = link(q)
        /\ pc[p] = "fetch" /\ pc[q] = "wait" /\ waitCh[q] = p

\* C2: an owner is about to write the cache only while it still holds the
\* registry entry and its channel is open; and a waiter released by an owner
\* whose run wrote the cache never fetches: it returns the cached record
\* (or, cancelled while waiting again, the bare result).
C2_WarmCacheForWaiters ==
    /\ \A o \in Procs :
         pc[o] = "store" => inFlight[link(o)] = o /\ o \notin closed
    /\ \A o \in Procs :
         hist[o].sets > 0 => pc[o] \in {"deferred", "deleting", "closing", "deliver", "done"}
    /\ \A w \in Procs : \A o \in hist[w].woken :
         hist[o].sets > 0 =>
            /\ hist[w].fetches = 0
            /\ pc[w] \notin {"fetch", "extract", "store"}
            /\ via[w] \in {"", "hit", "cancel"}
            /\ via[w] = "hit" =>
                 Marshal(result[w]) = Marshal(result[o])

\* a waiter released by an owner that wrote the cache has returned the record
C2_Witness ==
    \E w \in Procs : \E o \in hist[w].woken :
        hist[o].sets > 0 /\ via[w] = "hit" /\ pc[w] = "done"

\* C3: the response of a batch lists, at position k, the normalized result
\* of the pipeline of the k-th input link.
C3_InputOrder ==
    \A b \in Batches :
        serve[b] = "responded" =>
            \A k \in 1..Len(response[b]) :
                /\ response[b][k].idx = k - 1
                /\ response[b][k].URL = urls[b][k]
                /\ response[b][k] = normalize(result[<<b, k>>])

\* a response whose results arrived in another order than the input's
C3_Witness ==
    \E b \in Batches :
        /\ serve[b] = "responded"
        /\ Len(results[b]) = 2
        /\ results[b][1].idx > results[b][2].idx

FailedVia == {"blacklisted", "fetcherr"}

\* only the URL (and the index) of r is set
OnlyURL(r, i, u) == r = NewResult(i, u)

\* C4: the response of a batch has one entry per input link, and the entry
\* of a link whose pipeline failed is the record with only the URL.
C4_OneEntryPerURL ==
    \A b \in Batches :
        serve[b] = "responded" =>
            /\ Len(response[b]) = Len(urls[b])
            /\ \A k \in 1..Len(urls[b]) :
                 via[<<b, k>>] \in FailedVia =>
                     OnlyURL(response[b][k], k - 1, urls[b][k])

\* a response with the entry of a failed fetch beside an entry with a title
C4_Witness ==
    \E b \in Batches :
        /\ serve[b] = "responded"
        /\ Len(urls[b]) = 2
        /\ \E j, k \in 1..2 :
             /\ via[<<b, j>>] = "fetcherr"
             /\ via[<<b, k>>] = "full" /\ response[b][k].Title # <<>>

\* C5, as claimed: once the collector has abandoned the wait on a
\* cancellation, the response has as many entries as results were collected.
C5_Claimed ==
    \A b \in Batches :
        serve[b] = "aborted" => Len(response[b]) = Len(results[b])

\* C5, amended: the collector abandons the wait only on a cancellation that
\* fired before all results arrived, and then it writes no response at all,
\* whatever it had collected; from then on it collects and writes nothing.
\* A response that is written has one entry per link.
C5_AbortWritesNothing ==
    /\ [](\A b \in Batches :
            /\ serve[b] = "aborted" =>
                 /\ cancelled[b]
                 /\ Len(results[b]) < Len(urls[b])
                 /\ response[b] = <<>>
            /\ serve[b] = "responded" => Len(response[b]) = Len(urls[b]))
    /\ [][\A b \in Batches :
            serve[b] = "aborted" =>
                /\ serve'[b] = "aborted"
                /\ results'[b] = results[b]
                /\ response'[b] = response[b]]_vars

\* the collector gave up with one result collected, and a result that was
\* delivered afterwards stays in the channel
C5_Witness ==
    \E b \in Batches :
        /\ serve[b] = "aborted"
        /\ Len(results[b]) = 1
        /\ jobResults[b] # <<>>
        /\ \A k \in 1..Len(urls[b]) : pc[<<b, k>>] = "done"

\* C6: a processURL that left by the cancellation of its wait returns the
\* result with only the URL and the index, goes straight to the delivery
\* without running any deferred function, has fetched and written nothing,
\* and never made or removed a registry entry (no channel bears its name).
C6_CancelledWaiter ==
    \A p \in Procs :
        via[p] = "cancel" =>
            /\ pc[p] \in {"deliver", "done"}
            /\ OnlyURL(result[p], p[2] - 1, link(p))
            /\ inFlight[link(p)] # p
            /\ p \notin closed
            /\ hist[p].fetches = 0 /\ hist[p].sets = 0

\* a cancelled waiter has returned while the owner it waited on still holds
\* the entry
C6_Witness ==
    \E p \in Procs :
        /\ via[p] = "cancel" /\ pc[p] = "done"
        /\ inFlight[link(p)] = waitCh[p]
        /\ pc[waitCh[p]] = "fetch"

PipelineStages == {"owner", "cache", "fetch", "extract", "store"}

\* the step of processURL that p stands before, between the insert and the
\* return (of Extract the control part: the rest of it assigns result and hist)
PipelineStep(p) ==
    \/ CheckBlacklist(p) \/ CacheGet(p) \/ FetchFail(p) \/ FetchOK(p)
    \/ ExtractMove(p) \/ CacheSet(p)

\* C7: h.mu is held only inside the lookup/insert and the delete, never
\* during a wait, a fetch or any other pipeline step; a request that holds
\* the lock and finds no entry for its link can insert, and an owner can
\* take each step of its pipeline, whatever the owners of other links do.
C7_NoCrossBlocking ==
    /\ \A p \in Procs : mu = p => pc[p] \in {"locked", "deleting"}
    /\ mu # NoProc => mu \in Procs
    /\ \A p \in Procs :
         (pc[p] = "locked" /\ inFlight[link(p)] = NoProc) => ENABLED Insert(p)
    /\ \A p \in Procs : pc[p] \in PipelineStages => ENABLED PipelineStep(p)

\* the owners of two different links are both in their fetch
C7_Witness ==
    \E p, q \in Procs :
        /\ link(p) # link(q)
        /\ pc[p] = "fetch" /\ pc[q] = "fetch"

\* C8: a processURL that left by the cache hit returns the record the cache
\* holds for its link with idx set to its position, and has fetched
\* nothing, consulted no strategy and written nothing; the cached record
\* does not change, so a later hit returns the same.
C8_CacheHit ==
    \A p \in Procs :
        via[p] = "hit" =>
            /\ conf.Cache
            /\ cache[mcKey(link(p))] # <<>>
            /\ cache[mcKey(link(p))][1].decodes
            /\ result[p] = [Unmarshal(cache[mcKey(link(p))][1].json)
                              EXCEPT !.idx = p[2] - 1]
            /\ hist[p].fetches = 0
            /\ hist[p].used = <<>>
            /\ hist[p].sets = 0

\* a hit at the second position of a batch has returned the cached record
C8_Witness ==
    \E p \in Procs :
        /\ via[p] = "hit" /\ pc[p] = "done"
        /\ result[p].idx = 1
        /\ result[p].Title # <<>>

\* C9: a processURL whose primary fetch failed returns the result with only
\* the URL, after one fetch, no strategy and no cache write; and a link
\* whose server answers 400 or more never gets past the fetch.
C9_FetchFailure ==
    \A p \in Procs :
        /\ via[p] = "fetcherr" =>
              /\ OnlyURL(result[p], p[2] - 1, link(p))
              /\ hist[p].fetches = 1
              /\ hist[p].used = <<>>
              /\ hist[p].sets = 0
        /\ Web(link(p)).status >= 400 =>
              /\ pc[p] \notin {"extract", "store"}
              /\ via[p] # "full"
              /\ hist[p].fetches <= 1

\* the fetch of a link that answers 404 has failed and its result is delivered
C9_Witness ==
    \E p \in Procs :
        /\ Web(link(p)).status = 404
        /\ via[p] = "fetcherr" /\ pc[p] = "done"
        /\ conf.Cache

\* the strategies consulted after the custom fetchers
Builtin(used) == SelectSeq(used, LAMBDA x : x # "custom")

\* the page of link u carries Open Graph tags and has an oEmbed endpoint
HasBoth(u) ==
    /\ Web(u).status < 400
    /\ openGraphParseHTML(Web(u).chunk) # <<>>
    /\ oembedEndpoint(Web(u).chunk) # <<>>

\* C10, as claimed: where no custom fetcher matched and the page has both
\* an oEmbed document and Open Graph tags, oEmbed is consulted first.
C10_Claimed ==
    \A p \in Procs :
        (hist[p].used # <<>> /\ hist[p].won # "custom" /\ HasBoth(link(p))) =>
            Builtin(hist[p].used)[1] = "oembed"

\* ---------------------------------------------- properties of the chain

\* the steps that are extraction strategies
StrategySteps == {"custom", "opengraph", "oembed", "html"}

FieldNames ==
    {"URL", "Title", "Type", "Description", "SiteName", "Image", "ImageWidth",
     "ImageHeight", "IconUrl", "IconType"}

\* field f of r holds a value
Populated(r, f) == r[f] # unfurlResult[f]

C12_Claimed ==
    \A p \in Procs : ~blacklisted(titleBlacklist, result[p].Title)

\* the image url of r names a scheme, and it is neither http nor https
BadScheme(r) == r.Image # EmptyURL /\ r.Image.scheme \notin {"", "http", "https"}

\* C13: when the image step finds an image url whose scheme is neither http
\* nor https, the result leaves the step without image url, width and height.
C13_BadSchemeResetsImage ==
    \A p \in Procs : \A k \in 1..Len(steps[p]) :
        steps[p][k].by = "image" /\ BadScheme(steps[p][k].pre) =>
            /\ steps[p][k].post.Image = EmptyURL
            /\ steps[p][k].post.ImageWidth = 0
            /\ steps[p][k].post.ImageHeight = 0

\* the image step has met such an image, for which a strategy had supplied
\* a width and a height
C13_Witness ==
    \E p \in Procs : \E k \in 1..Len(steps[p]) :
        /\ steps[p][k].by = "image"
        /\ BadScheme(steps[p][k].pre)
        /\ steps[p][k].pre.ImageWidth > 0
        /\ steps[p][k].pre.ImageHeight > 0

\* the type http.DetectContentType gave the chunk of p
Sniffed(p) == chunk[p][1].data.mime.major

OwnerReturns == {"blacklisted", "hit", "fetcherr", "full"}

\* C15: the deferred delete removes the entry its own execution made; an
\* owner that has returned, by whatever path, has removed its entry and
\* closed its channel; and when no execution stands between its insert and
\* its delete the registry is empty.
C15_OwnerCleansUp ==
    /\ \A p \in Procs : pc[p] = "deleting" => inFlight[link(p)] = p
    /\ \A p \in Procs :
          via[p] \in OwnerReturns /\ pc[p] \in {"deliver", "done"} =>
              /\ p \in closed
              /\ \A u \in AllLinks : inFlight[u] # p
    /\ (\A p \in Procs : pc[p] \notin OwnerStages) =>
          \A u \in AllLinks : inFlight[u] = NoProc

\* two owners have returned, one for a blacklisted link and one after a
\* failed fetch, and nothing is in flight
C15_Witness ==
    /\ \A p \in Procs : pc[p] \in {"deliver", "done"}
    /\ \E p, q \in Procs :
          /\ via[p] = "blacklisted" /\ via[q] = "fetcherr"
          /\ p \in closed /\ q \in closed
    /\ \A u \in AllLinks : inFlight[u] = NoProc

\* p has returned from processURL
Returned(p) == pc[p] \in {"deliver", "done"}

\* C16: every processURL call returns in the end, whatever the interleaving
\* of owners and waiters of a link.
C16_EveryCallReturns == <>(\A p \in Procs : Returned(p))

\* an old owner has removed its entry and not yet closed its channel, a new
\* owner has registered the same link, and a third call still waits on the
\* old owner's channel
C16_Witness ==
    \E a, b, p \in Procs :
        /\ pc[a] = "closing"
        /\ link(a) = link(b) /\ inFlight[link(a)] = b /\ b # a
        /\ pc[p] = "wait" /\ waitCh[p] = a /\ p # b

\* ------------------------------------- properties of the chain, continued

\* r carries nothing beyond its url: the shape of a failed fetch's result
OnlyURLSet(r) ==
    /\ r.Title = <<>> /\ r.Type = "" /\ r.Description = "" /\ r.Image = EmptyURL

\* C17 as claimed: a full run whose result carries nothing beyond the url
\* leaves the cache as it was; stated for the runs in which none of the
\* custom, Open Graph and oEmbed strategies matched.
C17_Claimed ==
    \A p \in Procs :
        via[p] = "full" /\ hist[p].won = "" /\ OnlyURLSet(result[p]) =>
            cache[mcKey(link(p))] = <<>>

\* Metadata m has a title, a description or an image
HasMandatory(m) == m.Title # <<>> \/ m.Description # "" \/ m.Image # EmptyURL

\* the custom fetchers p has called
CustomCalls(p) == Len(SelectSeq(hist[p].used, LAMBDA s : s = "custom"))

\* C18 as claimed: the custom fetcher whose match ended the fetchers loop
\* returned Metadata with a title, a description or an image; Metadata
\* without them counts as no match and the loop goes on.
C18_Claimed ==
    \A p \in Procs :
        hist[p].won = "custom" =>
            LET r == FetchFunc(fetchers[CustomCalls(p)], chunk[p][1].url)
            IN  r.ok /\ HasMandatory(r.meta[1])

\* u names neither scheme nor host: a reference relative to a page
Relative(u) == u # EmptyURL /\ u.scheme = "" /\ u.host = ""

\* C19 as claimed: the icon step resolves a relative icon url against the
\* final url of the fetched page, chunk.url.
C19_Claimed ==
    \A p \in Procs : \A k \in 1..Len(steps[p]) :
        steps[p][k].by = "icon" /\ Relative(steps[p][k].pre.IconUrl) =>
            steps[p][k].post.IconUrl =
                MkURL(chunk[p][1].url.scheme, chunk[p][1].url.host,
                      steps[p][k].pre.IconUrl.path)

\* the scan has a title, a description and an icon
AllFound(st) == st.title # <<>> /\ st.description # "" /\ st.iconUrl # EmptyURL

\* C20 as claimed: once the scan of the first k tokens of a page has found
\* title, description and icon, the rest of the page changes none of them:
\* the scan of the whole page returns what the scan of those k tokens returns.
C20_Claimed ==
    \A p \in Procs :
        pc[p] = "icon" /\ Sniffed(p) = "text" =>
            LET toks == chunk[p][1].data.toks
                full == Tokenize(toks, 1, ScanState)
            IN  \A k \in 1..Len(toks) :
                    LET part == Tokenize(SubSeq(toks, 1, k), 1, ScanState)
                    IN  AllFound(part.st) => full = part

\* the results of request b that have left their goroutines
Handed(b) == results[b] \o jobResults[b]

\* C21: a goroutine leaves its select only by putting its result into the
\* channel or, when the request is cancelled, without sending; a goroutine
\* whose processURL has returned always gets out of its select; and the
\* collector never holds two results of one URL position.
C21_WorkersNeverBlock ==
    /\ [][\A p \in Procs :
            pc[p] = "deliver" /\ pc'[p] # "deliver" =>
                /\ pc'[p] = "done"
                /\ \/ Handed(p[1])' = Append(Handed(p[1]), result[p])
                   \/ cancelled[p[1]] /\ Handed(p[1])' = Handed(p[1])]_vars
    /\ [](\A b \in Batches : \A i, j \in 1..Len(results[b]) :
            results[b][i].idx = results[b][j].idx => i = j)
    /\ \A p \in AllProcs : (p \in Procs /\ pc[p] = "deliver") ~> (pc[p] = "done")

\* a goroutine has left by ctx.Done: the handler returned on cancellation with
\* another goroutine's result still in the channel, and this one's result is
\* nowhere
C21_Witness ==
    \E p \in Procs :
        /\ pc[p] = "done" /\ cancelled[p[1]] /\ serve[p[1]] = "aborted"
        /\ Len(jobResults[p[1]]) = JobResultsCap
        /\ \A k \in 1..Len(Handed(p[1])) : Handed(p[1])[k].idx # result[p].idx

====
